---- MODULE Spec2Model ----
(***************************************************************************)
(* A model of the expression-to-query compiler of the Azure Data Explorer  *)
(* datasource: KustoExpressionParser.toQuery and .toAutoCompleteQuery with *)
(* the helpers they call (src/src/KustoExpressionParser.ts, lines 1-544).  *)
(*                                                                         *)
(* Strings.  A JavaScript string is modelled as a sequence of atoms, each  *)
(* atom a TLA+ string holding one or more characters.  The characters the  *)
(* code inspects ('.', the word todynamic, digits, the unit letters, the   *)
(* line feed, '-') are always atoms of their own, so indexOf, split and    *)
(* the regular expression are computed on the sequence.  Text(s) is the    *)
(* flat string, and two strings are equal (===) iff their Text is.         *)
(*                                                                         *)
(* Optional values.  undefined is Undefined; a defined string s is Def(s). *)
(*                                                                         *)
(* Objects.  The where tree is kept in a heap (node id -> node), so that   *)
(* cloneDeep, the splice of replaceByIndex and aliasing are visible.       *)
(***************************************************************************)
EXTENDS Integers, Sequences, FiniteSets, TLC

VARIABLES
    expression,    \* the stored QueryExpression (from, reduce, groupBy, timeshift, smoothing)
    smoothingWeight, \* the weight index stored on the query beside the expression
    heap,          \* the objects of the stored expression's where tree: node id -> node
    heap0,         \* the where tree as it was when the expression was stored
    templateVars,  \* what templateSrv.getVariables() returns
    call,          \* the last call made: function name and arguments
    parts,         \* the stage list the last toQuery / toAutoCompleteQuery built
    built,         \* the stages of the last call, by the builder that appended them
    result,        \* the value the last call returned
    first,         \* the first toQuery call made on the stored expression, and its result
    spliced,       \* whether a toAutoCompleteQuery call has spliced its search operator in
    pc             \* "idle": nothing called yet; "called": call is pending; "returned"

vars == <<expression, smoothingWeight, heap, heap0, templateVars, call, parts, built, result, first, spliced, pc>>

----------------------------------------------------------------------------
(* Strings and optional values *)

Undefined == [def |-> FALSE, v |-> <<>>]

Def(s) == [def |-> TRUE, v |-> s]

\* the flat text of a string
RECURSIVE Text(_)
Text(s) == IF s = <<>> THEN "" ELSE Head(s) \o Text(Tail(s))

\* a === b on strings
StrEq(a, b) == Text(a) = Text(b)

\* !x for an optional string: undefined and '' are falsy
Falsy(x) == ~x.def \/ Text(x.v) = ""

\* `${x}` for an optional string
Interp(x) == IF x.def THEN x.v ELSE <<"undefined">>

\* array.join(sep) over strings
RECURSIVE Join(_, _)
Join(ss, sep) ==
    IF ss = <<>> THEN <<>>
    ELSE IF Len(ss) = 1 THEN ss[1]
    ELSE ss[1] \o sep \o Join(Tail(ss), sep)

\* array.join(sep) over optional strings: undefined elements render as ''
JoinOpt(xs, sep) == Join([i \in 1..Len(xs) |-> IF xs[i].def THEN xs[i].v ELSE <<>>], sep)

\* s.indexOf(a) > -1 for an atom a
Has(s, a) == \E i \in 1..Len(s) : s[i] = a

\* s.split(a) for a one-atom separator
RECURSIVE Split(_, _)
Split(s, a) ==
    IF ~Has(s, a) THEN <<s>>
    ELSE LET i == CHOOSE k \in 1..Len(s) : s[k] = a /\ \A j \in 1..(k - 1) : s[j] # a
         IN  <<SubSeq(s, 1, i - 1)>> \o Split(SubSeq(s, i + 1, Len(s)), a)

Digits == {"0", "1", "2", "3", "4", "5", "6", "7", "8", "9"}

DigitVal(c) ==
    CASE c = "0" -> 0 [] c = "1" -> 1 [] c = "2" -> 2 [] c = "3" -> 3 [] c = "4" -> 4
      [] c = "5" -> 5 [] c = "6" -> 6 [] c = "7" -> 7 [] c = "8" -> 8 [] c = "9" -> 9

\* the longest prefix of s made of digits
RECURSIVE DigitPrefix(_)
DigitPrefix(s) ==
    IF s # <<>> /\ Head(s) \in Digits THEN <<Head(s)>> \o DigitPrefix(Tail(s)) ELSE <<>>

RECURSIVE DigitsValue(_, _)
DigitsValue(s, acc) ==
    IF s = <<>> THEN acc ELSE DigitsValue(Tail(s), 10 * acc + DigitVal(Head(s)))

\* NaN
NaN == [nan |-> TRUE, n |-> 0]

Num(n) == [nan |-> FALSE, n |-> n]

\* parseInt(s, 10): an optional sign, then the leading digits; NaN without a digit
parseInt(s) ==
    LET neg  == s # <<>> /\ Head(s) = "-"
        body == IF s # <<>> /\ Head(s) \in {"-", "+"} THEN Tail(s) ELSE s
        ds   == DigitPrefix(body)
    IN  IF ds = <<>> THEN NaN
        ELSE Num(IF neg THEN 0 - DigitsValue(ds, 0) ELSE DigitsValue(ds, 0))

\* lodash toInteger on a string: the whole string must be a number, else 0
toInteger(s) ==
    LET neg  == s # <<>> /\ Head(s) = "-"
        body == IF s # <<>> /\ Head(s) \in {"-", "+"} THEN Tail(s) ELSE s
    IN  IF body = <<>> \/ DigitPrefix(body) # body THEN 0
        ELSE IF neg THEN 0 - DigitsValue(body, 0) ELSE DigitsValue(body, 0)

----------------------------------------------------------------------------
(* Classifier: editor/guards and the expression types.  A node carries a   *)
(* type tag and the guards compare it.                                     *)

QueryEditorPropertyType == {"number", "string", "boolean", "dateTime", "dynamic", "function", "interval"}

isReduceExpression(e) == e.type = "reduce"

isGroupBy(e) == e.type = "groupBy"

isFieldAndOperator(e) == e.type = "operator"

isAndExpression(e) == e.type = "and"

isOrExpression(e) == e.type = "or"

isArrayExpression(e) == isAndExpression(e) \/ isOrExpression(e)

----------------------------------------------------------------------------
(* Column resolver *)

\* Array.isArray(tableSchema)
NoSchema == [isArray |-> FALSE, cols |-> <<>>]

Schema(cols) == [isArray |-> TRUE, cols |-> cols]

\* array.find(pred): the index of the first element that satisfies P, 0 if none
FindFirst(seq, P(_)) ==
    IF \E i \in 1..Len(seq) : P(seq[i])
    THEN CHOOSE i \in 1..Len(seq) : P(seq[i]) /\ \A j \in 1..(i - 1) : ~P(seq[j])
    ELSE 0

isDynamic(column) ==
    (column # <<>> /\ Has(column, ".")) \/ (column # <<>> /\ Has(column, "todynamic"))

\* the reduce callback of toDynamic, folded from the left over parts[index..]
RECURSIVE toDynamicFold(_, _, _, _)
toDynamicFold(res, partsOfName, index, cslType) ==
    IF index > Len(partsOfName) THEN res
    ELSE LET part == partsOfName[index]
             next == IF Text(res) = ""
                        THEN <<"todynamic", "(">> \o part \o <<")">>
                     ELSE IF index = Len(partsOfName)
                        THEN <<"to" \o cslType, "(">> \o res \o <<".">> \o part \o <<")">>
                     ELSE <<"todynamic", "(">> \o res \o <<".">> \o part \o <<")">>
         IN  toDynamicFold(next, partsOfName, index + 1, cslType)

toDynamic(column) == toDynamicFold(<<>>, Split(column.Name, "."), 1, column.CslType)

castIfDynamic(column, tableSchema) ==
    IF ~isDynamic(column) \/ ~tableSchema.isArray THEN column
    ELSE LET i == FindFirst(tableSchema.cols, LAMBDA c : StrEq(c.Name, column))
         IN  IF i = 0 THEN column ELSE toDynamic(tableSchema.cols[i])

\* a find that takes the first entry with an interval, whatever its type
GroupByTimeIndexAnyType(groupBy) ==
    FindFirst(groupBy, LAMBDA e : isGroupBy(e) /\ e.interval.def)

\* expression.groupBy.expressions.find(...) of defaultTimeColumn
GroupByTimeIndex(groupBy) ==
    FindFirst(groupBy, LAMBDA e : isGroupBy(e) /\ e.property.type = "dateTime" /\ e.interval.def)

defaultTimeColumn(columns, expr) ==
    LET g == GroupByTimeIndex(expr.groupBy)
    IN  IF g # 0 THEN Def(castIfDynamic(expr.groupBy[g].property.name, columns))
        ELSE IF ~columns.isArray THEN Undefined
        ELSE LET f == FindFirst(columns.cols,
                                LAMBDA c : c.CslType = "datetime" /\ ~Has(c.Name, "."))
                 d == FindFirst(columns.cols, LAMBDA c : c.CslType = "datetime")
             IN  IF f # 0 THEN Def(columns.cols[f].Name)
                 ELSE IF d = 0 THEN Undefined
                 ELSE Def(toDynamic(columns.cols[d]))

----------------------------------------------------------------------------
(* Time shift and smoothing detection *)

\* \d{1,15}
MaxDigits == 15

\* (?:d|h|ms|s|m){0,1}
TimeUnits == {<<"d">>, <<"h">>, <<"m", "s">>, <<"s">>, <<"m">>, <<>>}

\* one line matches ^(\d{1,15}(?:d|h|ms|s|m){0,1})$
LineIsTimeSpan(line) ==
    LET ds == DigitPrefix(line)
    IN  \E n \in 1..MaxDigits :
            /\ n <= Len(ds)
            /\ SubSeq(line, n + 1, Len(line)) \in TimeUnits

\* /^(...)$/gm.test(value): with the m flag some line of the value matches
isValidTimeSpan(value) ==
    LET lines == Split(value, "\n")
    IN  \E i \in 1..Len(lines) : LineIsTimeSpan(lines[i])

\* returns the shift, or Undefined for null
detectTimeshift(timeColumn, timeshift) ==
    IF ~timeshift.def \/ Falsy(timeColumn) \/ ~timeshift.property.def THEN Undefined
    ELSE IF ~isValidTimeSpan(timeshift.property.name) THEN Undefined
    ELSE Def(timeshift.property.name)

\* returns the name, or Undefined for null
detectSmoothing(smoothing) ==
    IF ~smoothing.def \/ ~smoothing.property.def THEN Undefined
    ELSE Def(smoothing.property.name)

ewmaWeights == <<"0.7", "0.5", "0.3", "0.1">>

medianWeights == <<"3", "5", "7", "9">>

\* table[i] of a JavaScript array: undefined outside 0..length-1
ArrayAt(table, i) ==
    IF i >= 0 /\ i < Len(table) THEN [kind |-> "value", v |-> <<table[i + 1]>>]
    ELSE [kind |-> "undefined", v |-> <<"undefined">>]

\* kind is "value", "undefined" (an out-of-range read), "null" or "error" (a
\* thrown invalid-configuration error, which this code never raises); v is what
\* `${...}` renders
translateSmoothingWeight(smoothing, weight) ==
    IF Text(smoothing) = "median" THEN ArrayAt(medianWeights, toInteger(weight))
    ELSE IF Text(smoothing) = "ewma" THEN ArrayAt(ewmaWeights, toInteger(weight))
    ELSE [kind |-> "null", v |-> <<"null">>]

----------------------------------------------------------------------------
(* Value formatter *)

\* an operator or parameter value: a scalar string, an array of scalars, or undefined
Scalar(s) == [kind |-> "scalar", s |-> s, a |-> <<>>]

ArrayValue(a) == [kind |-> "array", s |-> <<>>, a |-> a]

NoValue == [kind |-> "undefined", s |-> <<>>, a |-> <<>>]

\* a lookup that takes every value that starts with $ for a variable
isTemplateVariableAnyDollar(value) == value.def /\ value.v # <<>> /\ Head(value.v) = "$"

isTemplateVariable(value) ==
    IF ~templateVars.isArray THEN FALSE
    ELSE \E i \in 1..Len(templateVars.ids) :
            value.def /\ StrEq(<<"$">> \o templateVars.ids[i], value.v)

\* formatValue on a value that is not an array; the result is undefined when the
\* value is and the type is Number or Boolean
formatScalar(value, type) ==
    IF isTemplateVariable(value) THEN value
    ELSE IF type \in {"number", "boolean"} THEN value
    ELSE Def(<<"'">> \o Interp(value) \o <<"'">>)

formatValue(value, type) ==
    IF value.kind = "array"
    THEN Def(<<"(">> \o JoinOpt([i \in 1..Len(value.a) |-> formatScalar(Def(value.a[i]), type)],
                                <<", ">>) \o <<")">>)
    ELSE formatScalar(IF value.kind = "scalar" THEN Def(value.s) ELSE Undefined, type)

----------------------------------------------------------------------------
(* The where tree.  A node of the heap is an array expression (type "and"  *)
(* or "or", with the ids of its children in expressions) or an operator    *)
(* expression (type "operator", with property and operator).  Hole is an   *)
(* empty slot of a JavaScript array, which forEach and map skip and an     *)
(* index read returns as undefined.                                        *)

Hole == -1

\* the id under which the search operator of an autocomplete call lives
SearchId == 0

\* the root of the stored where tree
RootId == 1

NoProperty == [def |-> FALSE, name |-> <<>>, type |-> "string"]

Property(name, type) == [def |-> TRUE, name |-> name, type |-> type]

ArrayNode(type, children) ==
    [type |-> type, expressions |-> children, property |-> NoProperty,
     operator |-> [name |-> <<>>, value |-> NoValue]]

OperatorNode(property, opName, value) ==
    [type |-> "operator", expressions |-> <<>>, property |-> property,
     operator |-> [name |-> opName, value |-> value]]

withPrefix(value, prefix) ==
    IF ~Falsy(prefix) THEN prefix.v \o <<" ">> \o value ELSE value

\* appendOperator without the skip of an expression that lacks a name
appendOperatorNoSkip(exp, acc, prefix) ==
    Append(acc, withPrefix(exp.property.name \o <<" ">> \o exp.operator.name \o <<" ">>
                           \o Interp(formatValue(exp.operator.value, exp.property.type)), prefix))

\* returns parts after the call
appendOperator(exp, acc, prefix) ==
    IF Text(exp.property.name) = "" \/ Text(exp.operator.name) = "" THEN acc
    ELSE IF Text(exp.operator.name) = "isnotempty"
    THEN Append(acc, withPrefix(exp.operator.name \o <<"(">> \o exp.property.name \o <<")">>, prefix))
    ELSE Append(acc, withPrefix(exp.property.name \o <<" ">> \o exp.operator.name \o <<" ">>
                                \o Interp(formatValue(exp.operator.value, exp.property.type)), prefix))

\* appendWhere(context, h[id], acc, prefix) and, for the children of an array
\* expression, expressions.forEach / expressions.map from child i on;
\* both return parts after the call
RECURSIVE appendWhere(_, _, _, _), appendWhereEach(_, _, _, _, _)
appendWhere(h, id, acc, prefix) ==
    IF id = Hole \/ id \notin DOMAIN h THEN acc
    ELSE IF isAndExpression(h[id]) THEN appendWhereEach(h, h[id].expressions, 1, acc, prefix)
    ELSE IF isOrExpression(h[id])
    THEN LET orParts == appendWhereEach(h, h[id].expressions, 1, <<>>, Undefined)
         IN  IF Len(orParts) = 0 THEN acc
             ELSE Append(acc, <<"where", " ">> \o Join(orParts, <<" or ">>))
    ELSE IF isFieldAndOperator(h[id]) THEN appendOperator(h[id], acc, prefix)
    ELSE acc

appendWhereEach(h, children, i, acc, prefix) ==
    IF i > Len(children) THEN acc
    ELSE appendWhereEach(h, children, i + 1,
                         IF children[i] = Hole THEN acc ELSE appendWhere(h, children[i], acc, prefix),
                         prefix)

----------------------------------------------------------------------------
(* replaceByIndex *)

\* the nodes reachable from a node
RECURSIVE Reach(_, _)
Reach(h, id) ==
    IF id = Hole \/ id \notin DOMAIN h THEN {}
    ELSE {id} \cup UNION {Reach(h, h[id].expressions[i]) : i \in 1..Len(h[id].expressions)}

MaxOf(S) == CHOOSE m \in S : \A x \in S : x <= m

\* a copy that shares the nodes of the original
cloneDeepAlias(h, root) == [heap |-> h, root |-> root]

\* cloneDeep(h[root]): every node reachable from root is copied to a fresh id;
\* returns the heap with the copies and the id of the copy of root
cloneDeep(h, root) ==
    LET off  == MaxOf(DOMAIN h)
        old  == Reach(h, root)
        copy(i) == [h[i] EXCEPT !.expressions =
                        [k \in 1..Len(@) |-> IF @[k] \in old THEN @[k] + off ELSE @[k]]]
    IN  [heap |-> [i \in DOMAIN h \cup {j + off : j \in old} |->
                        IF i \in DOMAIN h THEN h[i] ELSE copy(i - off)],
         root |-> root + off]

\* array[key] = id for a key that parseInt returned: NaN and negative keys set a
\* property that is no element; a key past the end leaves holes before it
SetAt(array, key, id) ==
    IF key.nan \/ key.n < 0 THEN array
    ELSE [k \in 1..(IF key.n + 1 > Len(array) THEN key.n + 1 ELSE Len(array)) |->
            IF k = key.n + 1 THEN id
            ELSE IF k <= Len(array) THEN array[k] ELSE Hole]

\* array[key]: the id of the element, Hole for undefined
GetAt(array, key) ==
    IF key.nan \/ key.n < 0 \/ key.n + 1 > Len(array) THEN Hole ELSE array[key.n + 1]

\* the loop of replaceByIndex from position i of keys; current is the id of the
\* node whose expressions array `current` refers to; returns the heap
RECURSIVE replaceLoop(_, _, _, _, _)
replaceLoop(h, keys, i, current, operator) ==
    IF i > Len(keys) THEN h
    ELSE IF i = Len(keys)
    THEN [h EXCEPT ![current].expressions = SetAt(@, keys[i], operator)]
    ELSE LET exp == GetAt(h[current].expressions, keys[i])
         IN  IF exp # Hole /\ exp \in DOMAIN h /\ isArrayExpression(h[exp])
             THEN replaceLoop(h, keys, i + 1, exp, operator)
             ELSE replaceLoop(h, keys, i + 1, current, operator)

\* replaceByIndex(index, h[expr], h[operator]); returns the heap after the call
\* and the id of the returned where
replaceByIndex(index, h, expr, operator) ==
    LET split == Split(index, "-")
        keys  == [k \in 1..Len(split) |-> parseInt(split[k])]
        c     == cloneDeep(h, expr)
    IN  [heap |-> replaceLoop(c.heap, keys, 1, c.root, operator), root |-> c.root]

----------------------------------------------------------------------------
(* Stage builders.  Each takes the stage list and returns it after the call. *)

\* reduce.expressions entry
Reduce(func, property, parameters) ==
    [type |-> "reduce", reduce |-> [name |-> func], property |-> property,
     parameters |-> parameters]

\* a parameters value that is no array, and one that is
NoParameters == [isArray |-> FALSE, list |-> <<>>]

Parameters(list) == [isArray |-> TRUE, list |-> list]

\* groupBy.expressions entry; interval is Undefined or Def(name)
GroupBy(property, interval) ==
    [type |-> "groupBy", property |-> property, interval |-> interval]

\* a QueryEditorPropertyExpression that is absent, without property, or named
NoExpression == [def |-> FALSE, property |-> [def |-> FALSE, name |-> <<>>]]

NoPropertyExpression == [def |-> TRUE, property |-> [def |-> FALSE, name |-> <<>>]]

PropertyExpression(name) == [def |-> TRUE, property |-> [def |-> TRUE, name |-> name]]

appendProperty(expr, acc) == Append(acc, expr.property.name)

appendTimeFilter(timeColumn, tableSchema, timeshiftExpr, acc) ==
    IF Falsy(timeColumn) THEN acc
    ELSE LET timeshift == detectTimeshift(timeColumn, timeshiftExpr)
         IN  IF ~Falsy(timeshift)
             THEN Append(acc, <<"where ">> \o timeColumn.v \o <<" between (($__timeFrom - ">>
                              \o timeshift.v \o <<") .. ($__timeTo - ">> \o timeshift.v \o <<"))">>)
             ELSE IF isDynamic(timeColumn.v)
             THEN Append(acc, <<"where ">> \o timeColumn.v \o <<" between ($__timeFrom .. $__timeTo)">>)
             ELSE Append(acc, <<"where $__timeFilter(">> \o timeColumn.v \o <<")">>)

appendTimeshift(timeColumn, timeshiftExpr, acc) ==
    LET timeshift == detectTimeshift(timeColumn, timeshiftExpr)
    IN  IF Falsy(timeshift) THEN acc
        ELSE Append(acc, <<"extend ">> \o Interp(timeColumn) \o <<" = ">> \o Interp(timeColumn)
                         \o <<" + ">> \o timeshift.v)

\* the loop over reduce.expressions of appendSummarize, from entry i on;
\* st holds countAddedInReduce, reduceParts and columns
RECURSIVE summarizeReduceLoop(_, _, _, _)
summarizeReduceLoop(reduce, i, tableSchema, st) ==
    IF i > Len(reduce) THEN st
    ELSE LET e == reduce[i]
         IN  IF ~isReduceExpression(e) THEN summarizeReduceLoop(reduce, i + 1, tableSchema, st)
             ELSE LET func   == e.reduce.name
                      column == castIfDynamic(e.property.name, tableSchema)
                      cols   == Append(st.columns, column)
                      params == JoinOpt([k \in 1..Len(e.parameters.list) |->
                                           formatValue(e.parameters.list[k].value,
                                                       e.parameters.list[k].fieldType)], <<", ">>)
                      next   ==
                        IF e.parameters.isArray
                        THEN [st EXCEPT !.columns = cols,
                                  !.reduceParts = Append(@, func \o <<"(">> \o column \o <<", ">>
                                                            \o params \o <<")">>)]
                        ELSE IF Text(func) = "count"
                        THEN IF ~st.countAddedInReduce
                             THEN [st EXCEPT !.columns = cols, !.countAddedInReduce = TRUE,
                                       !.reduceParts = Append(@, <<"count()">>)]
                             ELSE [st EXCEPT !.columns = cols]
                        ELSE IF Text(func) # "none"
                        THEN [st EXCEPT !.columns = cols,
                                  !.reduceParts = Append(@, func \o <<"(">> \o column \o <<")">>)]
                        ELSE [st EXCEPT !.columns = cols]
                  IN  summarizeReduceLoop(reduce, i + 1, tableSchema, next)

\* the loop over groupBy.expressions of appendSummarize; returns groupByParts
RECURSIVE summarizeGroupByLoop(_, _, _, _)
summarizeGroupByLoop(groupBy, i, tableSchema, groupByParts) ==
    IF i > Len(groupBy) THEN groupByParts
    ELSE LET e == groupBy[i]
         IN  IF ~isGroupBy(e) THEN summarizeGroupByLoop(groupBy, i + 1, tableSchema, groupByParts)
             ELSE LET column == castIfDynamic(e.property.name, tableSchema)
                  IN  summarizeGroupByLoop(groupBy, i + 1, tableSchema,
                        IF e.interval.def
                        THEN <<(<<"bin(">> \o column \o <<", ">> \o e.interval.v \o <<")">>)>>
                             \o groupByParts
                        ELSE Append(groupByParts, column))

\* a builder that does not look at the smoothing algorithm
appendSummarizeAnySmoothing(tableSchema, smoothingExpr, reduce, groupBy, acc) ==
    LET st == summarizeReduceLoop(reduce, 1, tableSchema,
                 [countAddedInReduce |-> FALSE, reduceParts |-> <<>>, columns |-> <<>>])
        groupByParts == summarizeGroupByLoop(groupBy, 1, tableSchema, <<>>)
    IN  IF Len(st.reduceParts) > 0
        THEN Append(acc, <<"summarize ">> \o Join(st.reduceParts, <<", ">>)
                         \o (IF Len(groupByParts) > 0
                             THEN <<" by ">> \o Join(groupByParts, <<", ">>) ELSE <<>>))
        ELSE IF Len(groupByParts) > 0
        THEN Append(acc, <<"summarize by ">> \o Join(groupByParts, <<", ">>))
        ELSE IF Len(st.columns) > 0
        THEN Append(acc, <<"project ">> \o Join(st.columns, <<", ">>))
        ELSE acc

\* a builder that prefers the projection of the referenced columns to
\* summarize by <groups>
appendSummarizeProjectFirst(tableSchema, smoothingExpr, reduce, groupBy, acc) ==
    LET smoothing == detectSmoothing(smoothingExpr)
    IN  IF ~Falsy(smoothing) /\ Text(smoothing.v) # "median" THEN acc
        ELSE LET st == summarizeReduceLoop(reduce, 1, tableSchema,
                          [countAddedInReduce |-> FALSE, reduceParts |-> <<>>, columns |-> <<>>])
                 groupByParts == summarizeGroupByLoop(groupBy, 1, tableSchema, <<>>)
             IN  IF Len(st.reduceParts) > 0
                 THEN Append(acc, <<"summarize ">> \o Join(st.reduceParts, <<", ">>)
                                  \o (IF Len(groupByParts) > 0
                                      THEN <<" by ">> \o Join(groupByParts, <<", ">>) ELSE <<>>))
                 ELSE IF Len(st.columns) > 0
                 THEN Append(acc, <<"project ">> \o Join(st.columns, <<", ">>))
                 ELSE IF Len(groupByParts) > 0
                 THEN Append(acc, <<"summarize by ">> \o Join(groupByParts, <<", ">>))
                 ELSE acc

appendSummarize(tableSchema, smoothingExpr, reduce, groupBy, acc) ==
    LET smoothing == detectSmoothing(smoothingExpr)
    IN  IF ~Falsy(smoothing) /\ Text(smoothing.v) # "median" THEN acc
        ELSE LET st == summarizeReduceLoop(reduce, 1, tableSchema,
                          [countAddedInReduce |-> FALSE, reduceParts |-> <<>>, columns |-> <<>>])
                 groupByParts == summarizeGroupByLoop(groupBy, 1, tableSchema, <<>>)
             IN  IF Len(st.reduceParts) > 0
                 THEN IF Len(groupByParts) > 0
                      THEN Append(acc, <<"summarize ">> \o Join(st.reduceParts, <<", ">>)
                                       \o <<" by ">> \o Join(groupByParts, <<", ">>))
                      ELSE Append(acc, <<"summarize ">> \o Join(st.reduceParts, <<", ">>))
                 ELSE IF Len(groupByParts) > 0
                 THEN Append(acc, <<"summarize by ">> \o Join(groupByParts, <<", ">>))
                 ELSE IF Len(st.columns) > 0
                 THEN Append(acc, <<"project ">> \o Join(st.columns, <<", ">>))
                 ELSE acc

\* the index of the last entry that satisfies P, 0 if none: what a loop that
\* overwrites its variable on every match is left with
FindLast(seq, P(_)) ==
    IF \E i \in 1..Len(seq) : P(seq[i])
    THEN CHOOSE i \in 1..Len(seq) : P(seq[i]) /\ \A j \in (i + 1)..Len(seq) : ~P(seq[j])
    ELSE 0

\* the weight index appendSmoothing passes to translateSmoothingWeight
SmoothingWeightArgument == <<"1">>

appendSmoothing(timeColumn, tableSchema, smoothingExpr, reduce, groupBy, acc) ==
    LET smoothing == detectSmoothing(smoothingExpr)
        noGroupBy == Len(groupBy) = 0
        noReduce  == Len(reduce) = 0
    IN  IF Falsy(smoothing) \/ noReduce \/ noGroupBy THEN acc
        ELSE
        LET r  == FindLast(reduce, isReduceExpression)
            reduceFunc   == IF r = 0 THEN <<>> ELSE reduce[r].reduce.name
            reduceColumn == IF r = 0 THEN <<>> ELSE castIfDynamic(reduce[r].property.name, tableSchema)
            g  == FindLast(groupBy, LAMBDA e : isGroupBy(e) /\ e.interval.def)
            groupByInterval == IF g = 0 THEN <<>> ELSE groupBy[g].interval.v
            plain == SelectSeq(groupBy, LAMBDA e : isGroupBy(e) /\ ~e.interval.def)
            groupByParts == [k \in 1..Len(plain) |-> castIfDynamic(plain[k].property.name, tableSchema)]
            by == IF Len(groupByParts) > 0 THEN <<" by ">> \o Join(groupByParts, <<", ">>) ELSE <<>>
            tc == Interp(timeColumn)
            weight == translateSmoothingWeight(smoothing.v, SmoothingWeightArgument).v
        IN  IF Text(smoothing.v) # "median"
            THEN acc
                 \o << <<"make-series a=">> \o reduceFunc \o <<"(">> \o reduceColumn \o <<") on ">>
                       \o tc \o <<" from $__timeFrom to $__timeTo step ">> \o groupByInterval \o by >>
                 \o (IF Text(smoothing.v) = "ewma"
                     THEN << <<"extend b=series_exp_smoothing_udf(a, ">> \o weight \o <<")">> >>
                     ELSE <<>>)
                 \o (IF Text(smoothing.v) = "auto"
                     THEN << <<"extend b=series_moving_avg_udf(a, 10, false)">> >>
                     ELSE <<>>)
                 \o << <<"mv-expand ">> \o tc \o <<" to typeof(datetime), b to typeof(real)">> >>
                 \o << <<"project ">> \o tc \o <<", b">>
                       \o (IF Len(groupByParts) > 0
                           THEN <<", ">> \o Join(groupByParts, <<", ">>) ELSE <<>>) >>
            ELSE Append(acc,
                   <<"evaluate rolling_percentile(">> \o reduceFunc \o <<"_">> \o reduceColumn
                   \o <<", 50, ">> \o tc \o <<", ">> \o groupByInterval \o <<", ">> \o weight
                   \o (IF Len(groupByParts) > 0
                       THEN <<", ">> \o Join(groupByParts, <<", ">>) ELSE <<>>)
                   \o <<")">>)

\* an order stage for un-aggregated queries only
appendOrderByUngroupedOnly(timeColumn, groupBy, reduce, acc) ==
    IF Falsy(timeColumn) \/ Len(groupBy) # 0 \/ Len(reduce) # 0 THEN acc
    ELSE Append(acc, <<"order by ">> \o timeColumn.v \o <<" asc">>)

\* an order stage whenever the time column is resolved
appendOrderByAlways(timeColumn, groupBy, reduce, acc) ==
    IF Falsy(timeColumn) THEN acc
    ELSE Append(acc, <<"order by ">> \o timeColumn.v \o <<" asc">>)

appendOrderBy(timeColumn, groupBy, reduce, acc) ==
    IF Falsy(timeColumn) THEN acc
    ELSE LET noGroupBy == Len(groupBy) = 0
             noReduce  == Len(reduce) = 0
             hasInterval == FindFirst(groupBy, LAMBDA e : isGroupBy(e) /\ e.interval.def) # 0
         IN  IF noGroupBy /\ noReduce
             THEN Append(acc, <<"order by ">> \o timeColumn.v \o <<" asc">>)
             ELSE IF hasInterval
             THEN Append(acc, <<"order by ">> \o timeColumn.v \o <<" asc">>)
             ELSE acc

----------------------------------------------------------------------------
(* The two entry points *)

\* the stored expression without its where tree, which lives in the heap
\* under RootId
QueryExpression(from, reduce, groupBy, timeshift, smoothing) ==
    [def |-> TRUE, from |-> from, reduce |-> reduce, groupBy |-> groupBy,
     timeshift |-> timeshift, smoothing |-> smoothing]

NoQueryExpression ==
    [def |-> FALSE, from |-> NoExpression, reduce |-> <<>>, groupBy |-> <<>>,
     timeshift |-> NoExpression, smoothing |-> NoExpression]

\* the stages b appended to a
Appended(a, b) == [k \in 1..(Len(b) - Len(a)) |-> Text(b[Len(a) + k])]

NoStages ==
    [property |-> <<>>, timeFilter |-> <<>>, where |-> <<>>, timeshift |-> <<>>,
     summarize |-> <<>>, smoothing |-> <<>>, orderBy |-> <<>>, tail |-> <<>>]

\* parts.join('\n| ')
JoinStages(ps) == Text(Join(ps, <<"\n| ">>))

Returned(ps, stages) ==
    [parts |-> [k \in 1..Len(ps) |-> Text(ps[k])], built |-> stages, result |-> JoinStages(ps)]

ReturnedEmpty == [parts |-> <<>>, built |-> NoStages, result |-> ""]

\* the parts after a builder ran and the stages it appended, kept under name
Built(c, name, ps) ==
    [parts |-> ps, built |-> [c.built EXCEPT ![name] = Appended(c.parts, ps)]]

NoParts == [parts |-> <<>>, built |-> NoStages]

\* this.appendProperty(context, expression.from, parts)
withProperty(c, expr) == Built(c, "property", appendProperty(expr.from, c.parts))

\* this.appendTimeFilter(context, timeshift, parts)
withTimeFilter(c, timeColumn, tableSchema, timeshift) ==
    Built(c, "timeFilter", appendTimeFilter(timeColumn, tableSchema, timeshift, c.parts))

\* this.appendWhere(context, where, parts, 'where')
withWhere(c, h, root) == Built(c, "where", appendWhere(h, root, c.parts, Def(<<"where">>)))

\* this.appendTimeshift(context, expression.timeshift, parts)
withTimeshift(c, timeColumn, expr) ==
    Built(c, "timeshift", appendTimeshift(timeColumn, expr.timeshift, c.parts))

\* this.appendSummarize(context, smoothing, reduce, groupBy, parts)
withSummarize(c, tableSchema, expr) ==
    Built(c, "summarize",
          appendSummarize(tableSchema, expr.smoothing, expr.reduce, expr.groupBy, c.parts))

\* this.appendSmoothing(context, smoothing, reduce, groupBy, parts)
withSmoothing(c, timeColumn, tableSchema, expr) ==
    Built(c, "smoothing",
          appendSmoothing(timeColumn, tableSchema, expr.smoothing, expr.reduce,
                          expr.groupBy, c.parts))

\* this.appendOrderBy(context, expression.groupBy, expression.reduce, parts)
withOrderBy(c, timeColumn, expr) ==
    Built(c, "orderBy", appendOrderBy(timeColumn, expr.groupBy, expr.reduce, c.parts))

\* the end of toQuery: '' for no parts, else the parts joined
toQueryReturn(c) ==
    IF Len(c.parts) = 0 THEN ReturnedEmpty ELSE Returned(c.parts, c.built)

\* toQuery from the context on: the seven builders in order, then the join
toQueryWith(expr, h, tableSchema, timeColumn) ==
    toQueryReturn(
      withOrderBy(
        withSmoothing(
          withSummarize(
            withTimeshift(
              withWhere(
                withTimeFilter(withProperty(NoParts, expr),
                               timeColumn, tableSchema, expr.timeshift),
                h, RootId),
              timeColumn, expr),
            tableSchema, expr),
          timeColumn, tableSchema, expr),
        timeColumn, expr))

toQuery(expr, h, tableSchema) ==
    IF ~expr.def \/ ~expr.from.def THEN ReturnedEmpty
    ELSE toQueryWith(expr, h, tableSchema, defaultTimeColumn(tableSchema, expr))

\* parts.push('take 50000'); parts.push(`distinct ...`); parts.push('take 251')
withTake(c, column, tableSchema) ==
    Built(c, "tail", c.parts \o << <<"take 50000">>,
                                   <<"distinct ">> \o castIfDynamic(column, tableSchema),
                                   <<"take 251">> >>)

\* the end of toAutoCompleteQuery: the parts joined
toAutoCompleteQueryReturn(c) == Returned(c.parts, c.built)

\* toAutoCompleteQuery with the time filter of the expression's time shift
toAutoCompleteQueryShifted(expr, h, where, tableSchema, timeColumn) ==
    [ret |-> toAutoCompleteQueryReturn(
               withTake(
                 withWhere(
                   withTimeFilter(withProperty(NoParts, expr),
                                  timeColumn, tableSchema, expr.timeshift),
                   where.heap, where.root),
                 h[SearchId].property.name, tableSchema)),
     heap |-> where.heap, where |-> where.root]

\* toAutoCompleteQuery from the context and the replaced where tree on
toAutoCompleteQueryWith(expr, h, where, tableSchema, timeColumn) ==
    [ret |-> toAutoCompleteQueryReturn(
               withTake(
                 withWhere(
                   withTimeFilter(withProperty(NoParts, expr),
                                  timeColumn, tableSchema, NoExpression),
                   where.heap, where.root),
                 h[SearchId].property.name, tableSchema)),
     heap |-> where.heap, where |-> where.root]

\* query = {expression: expr with its where tree in h, search: h[SearchId], index};
\* returns the stages, the result, the heap after the call and the id of the
\* where tree that was lowered
toAutoCompleteQuery(expr, h, index, tableSchema) ==
    IF ~expr.def \/ ~expr.from.def \/ ~h[SearchId].property.def
    THEN [ret |-> ReturnedEmpty, heap |-> h, where |-> RootId]
    ELSE toAutoCompleteQueryWith(expr, h, replaceByIndex(index, h, RootId, SearchId),
                                 tableSchema, defaultTimeColumn(tableSchema, expr))

----------------------------------------------------------------------------
(* Operations *)

NoSearch == OperatorNode(NoProperty, <<>>, NoValue)

\* arg holds the arguments of a call to one of the helper functions
NoCall == [fn |-> "none", schema |-> NoSchema, index |-> <<>>, search |-> NoSearch, arg |-> <<>>]

NoFirst == [def |-> FALSE, schema |-> NoSchema, result |-> ""]

\* what a caller can still reach of the stored where tree
Stored(h) == [i \in Reach(h, RootId) |-> h[i]]

\* compile: toQuery on the stored expression
ToQuery(tableSchema) ==
    \E r \in {toQuery(expression, heap, tableSchema)} :
        /\ call' = [NoCall EXCEPT !.fn = "toQuery", !.schema = tableSchema]
        /\ parts' = r.parts
        /\ built' = r.built
        /\ result' = r.result
        /\ first' = IF first.def THEN first
                    ELSE [def |-> TRUE, schema |-> tableSchema, result |-> r.result]
        /\ pc' = "returned"
        /\ UNCHANGED <<expression, smoothingWeight, heap, heap0, templateVars, spliced>>

\* the heap with the search operator of the query in it
WithSearch(h, search) ==
    [i \in DOMAIN h \cup {SearchId} |-> IF i = SearchId THEN search ELSE h[i]]

\* compileAutocomplete: toAutoCompleteQuery on the stored expression, with a
\* search operator and an index path
ToAutoCompleteQuery(tableSchema, index, search) ==
    \E r \in {toAutoCompleteQuery(expression, WithSearch(heap, search), index, tableSchema)} :
        /\ call' = [NoCall EXCEPT !.fn = "toAutoCompleteQuery", !.schema = tableSchema,
                                  !.index = index, !.search = search]
        /\ parts' = r.ret.parts
        /\ built' = r.ret.built
        /\ result' = r.ret.result
        /\ heap' = Stored(r.heap)
        /\ spliced' = (spliced \/ SearchId \in Reach(r.heap, r.where))
        /\ pc' = "returned"
        /\ UNCHANGED <<expression, smoothingWeight, heap0, templateVars, first>>

\* castIfDynamic(column, tableSchema) on the pending call's arguments
CastIfDynamic ==
    /\ pc = "called"
    /\ call.fn = "castIfDynamic"
    /\ result' = Text(castIfDynamic(call.arg, call.schema))
    /\ pc' = "returned"
    /\ UNCHANGED <<expression, smoothingWeight, heap, heap0, templateVars, call, parts, built, first, spliced>>

\* translateSmoothingWeight(smoothing, weight) on the pending call's arguments;
\* the result is the kind of value returned and its text
TranslateSmoothingWeight ==
    /\ pc = "called"
    /\ call.fn = "translateSmoothingWeight"
    /\ result' = LET r == translateSmoothingWeight(call.arg[1], call.arg[2])
                 IN  [kind |-> r.kind, text |-> Text(r.v)]
    /\ pc' = "returned"
    /\ UNCHANGED <<expression, smoothingWeight, heap, heap0, templateVars, call, parts, built, first, spliced>>

----------------------------------------------------------------------------
(* Inputs: where trees *)

\* the most nodes a stored where tree has, its root included
MaxNodes == 4

\* the most nodes of a stored where tree under repeated calls
MaxCallNodes == 3

\* the most keys an index path has
MaxPathLen == 2

\* operator expressions: two complete ones, one without a property name, one
\* without an operator name, one with the unary operator
LeafNode(kind) ==
    CASE kind = "A" -> OperatorNode(Property(<<"a">>, "string"), <<"==">>, Scalar(<<"x">>))
      [] kind = "B" -> OperatorNode(Property(<<"b">>, "number"), <<">">>, Scalar(<<"1">>))
      [] kind = "noProperty" -> OperatorNode(Property(<<>>, "string"), <<"==">>, Scalar(<<"x">>))
      [] kind = "noOperator" -> OperatorNode(Property(<<"a">>, "string"), <<>>, Scalar(<<"x">>))
      [] kind = "unary" -> OperatorNode(Property(<<"c">>, "string"), <<"isnotempty">>, NoValue)

ArrayKinds == {"and", "or"}

\* node i and its ancestors, for a parent function
RECURSIVE AncestorsOrSelf(_, _)
AncestorsOrSelf(parent, i) ==
    IF i = RootId THEN {RootId} ELSE {i} \cup AncestorsOrSelf(parent, parent[i])

\* the trees of n nodes, numbered in preorder: the parent of node i is node
\* i - 1 or one of its ancestors
TreeShapes(n) ==
    {parent \in [2..n -> 1..(n - 1)] :
        \A i \in 2..n : parent[i] \in AncestorsOrSelf(parent, i - 1)}

\* the children of node i, in order
RECURSIVE ChildrenFrom(_, _, _, _)
ChildrenFrom(parent, n, i, j) ==
    IF j > n THEN <<>>
    ELSE (IF parent[j] = i THEN <<j>> ELSE <<>>) \o ChildrenFrom(parent, n, i, j + 1)

\* the heaps of the where trees of exactly n nodes whose operator expressions
\* are of the given kinds
WhereTreesOfSize(n, leafKinds) ==
    UNION {
        {[i \in 1..n |-> IF kind[i] \in ArrayKinds
                         THEN ArrayNode(kind[i], ChildrenFrom(parent, n, i, i + 1))
                         ELSE LeafNode(kind[i])] :
            kind \in {k \in [1..n -> ArrayKinds \cup leafKinds] :
                        /\ k[RootId] \in ArrayKinds
                        /\ \A j \in 2..n : k[parent[j]] \in ArrayKinds}}
        : parent \in TreeShapes(n)}

WhereTrees(maxNodes, leafKinds) ==
    UNION {WhereTreesOfSize(n, leafKinds) : n \in 1..maxNodes}

EmptyWhere == [i \in {RootId} |-> ArrayNode("and", <<>>)]

\* the index paths: up to MaxPathLen keys "0" or "1" joined by '-', and three
\* with a key that is no number
RECURSIVE KeyLists(_)
KeyLists(n) ==
    IF n = 0 THEN {<<>>}
    ELSE {<<k>> \o ks : k \in {<<"0">>, <<"1">>}, ks \in KeyLists(n - 1)}

Indexes ==
    UNION {{Join(ks, <<"-">>) : ks \in KeyLists(n)} : n \in 1..MaxPathLen}
    \cup {<<>>, <<"0", "-">>, <<"-", "0">>}

Search == OperatorNode(Property(<<"s">>, "string"), <<"contains">>, Scalar(<<"v">>))

TimestampSchema == Schema(<<[Name |-> <<"Timestamp">>, CslType |-> "datetime"]>>)

NoVariables == [isArray |-> TRUE, ids |-> <<>>]

FromTable(name) == PropertyExpression(name)

\* what every specification starts from: nothing called yet
Fresh ==
    /\ smoothingWeight = Undefined
    /\ heap0 = heap
    /\ call = NoCall
    /\ parts = <<>>
    /\ built = NoStages
    /\ result = ""
    /\ first = NoFirst
    /\ spliced = FALSE
    /\ pc = "idle"

----------------------------------------------------------------------------
(* Specification of the where lowering: a stored expression with any where *)
(* tree, compiled with or without a schema.                                *)

InitLower ==
    /\ expression = QueryExpression(FromTable(<<"T">>), <<>>, <<>>, NoExpression, NoExpression)
    /\ heap \in WhereTrees(MaxNodes, {"A", "B", "noProperty", "noOperator", "unary"})
    /\ templateVars = NoVariables
    /\ Fresh

NextLower == \E tableSchema \in {NoSchema, TimestampSchema} : ToQuery(tableSchema)

SpecLower == InitLower /\ [][NextLower]_vars

----------------------------------------------------------------------------
(* Specification of repeated calls on one stored expression: compile and   *)
(* autocomplete in any order, with any index path.                         *)

InitCalls ==
    /\ expression = QueryExpression(FromTable(<<"T">>), <<>>, <<>>, NoExpression, NoExpression)
    /\ heap \in WhereTrees(MaxCallNodes, {"A", "B"})
    /\ templateVars = NoVariables
    /\ Fresh

NextCalls ==
    \/ \E tableSchema \in {NoSchema, TimestampSchema} : ToQuery(tableSchema)
    \/ \E index \in Indexes : ToAutoCompleteQuery(TimestampSchema, index, Search)

SpecCalls == InitCalls /\ [][NextCalls]_vars

----------------------------------------------------------------------------
(* Specification of the pipeline: one compile of a stored expression with  *)
(* any reduce and groupBy lists and any smoothing.                         *)

\* the most entries reduce.expressions and groupBy.expressions hold together
MaxEntries == 3

NumberParameter(text) == [value |-> Scalar(text), fieldType |-> "number"]

ReduceChoices ==
    {Reduce(<<"count">>, Property(<<"Value">>, "number"), NoParameters),
     Reduce(<<"count">>, Property(<<"Value">>, "number"), Parameters(<<>>)),
     Reduce(<<"avg">>, Property(<<"Value">>, "number"), NoParameters),
     Reduce(<<"none">>, Property(<<"Host">>, "string"), NoParameters),
     Reduce(<<"percentile">>, Property(<<"Value">>, "number"),
            Parameters(<<NumberParameter(<<"95">>)>>))}

GroupByChoices ==
    {GroupBy(Property(<<"Timestamp">>, "dateTime"), Def(<<"5m">>)),
     GroupBy(Property(<<"Created">>, "dateTime"), Def(<<"1h">>)),
     GroupBy(Property(<<"Level">>, "number"), Def(<<"10">>)),
     GroupBy(Property(<<"Host">>, "string"), Undefined)}

\* the sequences of length n over a set
RECURSIVE SeqsOfLen(_, _)
SeqsOfLen(S, n) ==
    IF n = 0 THEN {<<>>} ELSE {<<x>> \o xs : x \in S, xs \in SeqsOfLen(S, n - 1)}

SmoothingChoices ==
    {NoExpression, PropertyExpression(<<"ewma">>), PropertyExpression(<<"auto">>),
     PropertyExpression(<<"median">>), PropertyExpression(<<"sma">>)}

\* a schema whose only datetime column is nested
NestedTimeSchema == Schema(<<[Name |-> <<"Tags", ".", "ts">>, CslType |-> "datetime"]>>)

InitPipeline ==
    /\ \E r \in 0..MaxEntries : \E g \in 0..(MaxEntries - r) :
       \E reduce \in SeqsOfLen(ReduceChoices, r), groupBy \in SeqsOfLen(GroupByChoices, g),
          smoothing \in SmoothingChoices,
          timeshift \in {NoExpression, PropertyExpression(<<"1", "h">>)} :
            expression = QueryExpression(FromTable(<<"T">>), reduce, groupBy, timeshift, smoothing)
    /\ heap = EmptyWhere
    /\ templateVars = NoVariables
    /\ Fresh

NextPipeline ==
    /\ pc = "idle"
    /\ \E tableSchema \in {NoSchema, TimestampSchema, NestedTimeSchema} : ToQuery(tableSchema)

SpecPipeline == InitPipeline /\ [][NextPipeline]_vars

----------------------------------------------------------------------------
(* Specification of the time shift and of the missing from table: one call *)
(* on a stored expression with any time-shift string.                      *)

\* the most characters of a time-shift string
MaxShiftLen == 3

ShiftChars == {"1", "d", "h", "m", "s", "x", "\n"}

ShiftStrings == UNION {SeqsOfLen(ShiftChars, n) : n \in 0..MaxShiftLen}

OneFilter == [i \in 1..2 |-> IF i = RootId THEN ArrayNode("and", <<2>>) ELSE LeafNode("A")]

\* a search operator without a property, and one whose property has no name
SearchNoProperty == OperatorNode(NoProperty, <<"contains">>, Scalar(<<"v">>))

SearchNoName == OperatorNode(Property(<<>>, "string"), <<"contains">>, Scalar(<<"v">>))

InitShift ==
    /\ \/ expression = NoQueryExpression
       \/ \E from \in {NoExpression, FromTable(<<>>), FromTable(<<"T">>)},
             timeshift \in {NoExpression, NoPropertyExpression}
                           \cup {PropertyExpression(t) : t \in ShiftStrings} :
               expression = QueryExpression(from, <<>>, <<>>, timeshift, NoExpression)
    /\ heap \in {EmptyWhere, OneFilter}
    /\ templateVars = NoVariables
    /\ Fresh

NextShift ==
    /\ pc = "idle"
    /\ \/ \E tableSchema \in {NoSchema, TimestampSchema, NestedTimeSchema} : ToQuery(tableSchema)
       \/ \E tableSchema \in {NoSchema, TimestampSchema},
             search \in {Search, SearchNoProperty, SearchNoName} :
               ToAutoCompleteQuery(tableSchema, <<"0">>, search)

SpecShift == InitShift /\ [][NextShift]_vars

----------------------------------------------------------------------------
(* Specification of castIfDynamic: any column name, with and without a     *)
(* schema entry for it.                                                    *)

\* the most atoms of a column name
MaxNameLen == 5

NameAtoms == {"a", "b", ".", "todynamic"}

ColumnNames == UNION {SeqsOfLen(NameAtoms, n) : n \in 1..MaxNameLen}

OtherColumn == [Name |-> <<"z">>, CslType |-> "string"]

SchemasFor(column) ==
    {NoSchema,
     Schema(<<OtherColumn>>),
     Schema(<<[Name |-> column, CslType |-> "string"]>>),
     Schema(<<OtherColumn, [Name |-> column, CslType |-> "long"]>>)}

\* nothing stored: a helper function is about to be called
Pending(fn, arg, tableSchema) ==
    /\ expression = NoQueryExpression
    /\ smoothingWeight = Undefined
    /\ heap = EmptyWhere
    /\ heap0 = heap
    /\ templateVars = NoVariables
    /\ call = [NoCall EXCEPT !.fn = fn, !.arg = arg, !.schema = tableSchema]
    /\ parts = <<>>
    /\ built = NoStages
    /\ result = ""
    /\ first = NoFirst
    /\ spliced = FALSE
    /\ pc = "called"

InitCast ==
    \E column \in ColumnNames : \E tableSchema \in SchemasFor(column) :
        Pending("castIfDynamic", column, tableSchema)

NextCast == CastIfDynamic

SpecCast == InitCast /\ [][NextCast]_vars

----------------------------------------------------------------------------
(* Specification of translateSmoothingWeight: any algorithm, any weight.   *)

\* the most characters of a weight index
MaxWeightLen == 2

WeightChars == {"-", "0", "1", "2", "3", "4", "x"}

WeightStrings == UNION {SeqsOfLen(WeightChars, n) : n \in 0..MaxWeightLen}

InitWeight ==
    \E smoothing \in {<<"ewma">>, <<"median">>, <<"auto">>}, weight \in WeightStrings :
        Pending("translateSmoothingWeight", <<smoothing, weight>>, NoSchema)

NextWeight == TranslateSmoothingWeight

SpecWeight == InitWeight /\ [][NextWeight]_vars

----------------------------------------------------------------------------
(* Specification of the time column: one compile of a stored expression    *)
(* with any groupBy list, against schemas with no, one or several datetime *)
(* columns, nested and not.                                                *)

\* the most entries of groupBy.expressions
MaxGroupBy == 2

TimeGroupByChoices ==
    {GroupBy(Property(<<"Tags", ".", "ts">>, "dateTime"), Def(<<"5m">>)),
     GroupBy(Property(<<"Created">>, "dateTime"), Def(<<"1h">>)),
     GroupBy(Property(<<"Level">>, "number"), Def(<<"10">>)),
     GroupBy(Property(<<"Timestamp">>, "dateTime"), Undefined),
     GroupBy(Property(<<"Host">>, "string"), Undefined)}

\* a nested datetime column before two top-level ones
MixedSchema ==
    Schema(<<[Name |-> <<"Tags", ".", "ts">>, CslType |-> "datetime"],
             [Name |-> <<"Host">>, CslType |-> "string"],
             [Name |-> <<"Timestamp">>, CslType |-> "datetime"],
             [Name |-> <<"Created">>, CslType |-> "datetime"]>>)

\* two nested datetime columns after a string column
NestedOnlySchema ==
    Schema(<<[Name |-> <<"Host">>, CslType |-> "string"],
             [Name |-> <<"Data", ".", "info", ".", "at">>, CslType |-> "datetime"],
             [Name |-> <<"Tags", ".", "ts">>, CslType |-> "datetime"]>>)

\* a schema without a datetime column
NoTimeSchema == Schema(<<[Name |-> <<"Host">>, CslType |-> "string"]>>)

TimeSchemas ==
    {NoSchema, TimestampSchema, NestedTimeSchema, MixedSchema, NestedOnlySchema, NoTimeSchema}

InitTimeColumn ==
    /\ \E g \in 0..MaxGroupBy :
       \E groupBy \in SeqsOfLen(TimeGroupByChoices, g),
          reduce \in {<<>>, <<Reduce(<<"count">>, Property(<<"Value">>, "number"), NoParameters)>>} :
            expression = QueryExpression(FromTable(<<"T">>), reduce, groupBy,
                                         NoExpression, NoExpression)
    /\ heap = EmptyWhere
    /\ templateVars = NoVariables
    /\ Fresh

NextTimeColumn ==
    /\ pc = "idle"
    /\ \E tableSchema \in TimeSchemas : ToQuery(tableSchema)

SpecTimeColumn == InitTimeColumn /\ [][NextTimeColumn]_vars

----------------------------------------------------------------------------
(* Specification of formatValue: any scalar or array value, any property   *)
(* type, with and without template variables.                              *)

\* formatValue(value, type) on the pending call's arguments; the result is
\* whether a string was returned and its text
FormatValue ==
    /\ pc = "called"
    /\ call.fn = "formatValue"
    /\ \E r \in {formatValue(call.arg.value, call.arg.type)} :
          result' = [def |-> r.def, text |-> Text(r.v)]
    /\ pc' = "returned"
    /\ UNCHANGED <<expression, smoothingWeight, heap, heap0, templateVars, call, parts, built, first, spliced>>

\* the most atoms of a scalar value
MaxValueLen == 2

\* the most elements of an array value
MaxArrayLen == 2

ValueAtoms == {"$", "host", "x", "1"}

ScalarValues == UNION {SeqsOfLen(ValueAtoms, n) : n \in 0..MaxValueLen}

ElementValues == {<<"$", "host">>, <<"x">>, <<"1">>}

ArrayValues == UNION {SeqsOfLen(ElementValues, n) : n \in 0..MaxArrayLen}

FormatInputs ==
    {NoValue} \cup {Scalar(s) : s \in ScalarValues} \cup {ArrayValue(a) : a \in ArrayValues}

\* templateSrv.getVariables(): no array, or the ids of the variables
VariableLists ==
    {[isArray |-> FALSE, ids |-> <<>>], NoVariables,
     [isArray |-> TRUE, ids |-> <<<<"host">>>>],
     [isArray |-> TRUE, ids |-> <<<<"other">>, <<"host">>>>]}

InitFormat ==
    /\ \E value \in FormatInputs, type \in QueryEditorPropertyType :
          call = [NoCall EXCEPT !.fn = "formatValue", !.arg = [value |-> value, type |-> type]]
    /\ templateVars \in VariableLists
    /\ expression = NoQueryExpression
    /\ smoothingWeight = Undefined
    /\ heap = EmptyWhere
    /\ heap0 = heap
    /\ parts = <<>>
    /\ built = NoStages
    /\ result = ""
    /\ first = NoFirst
    /\ spliced = FALSE
    /\ pc = "called"

NextFormat == FormatValue

SpecFormat == InitFormat /\ [][NextFormat]_vars

----------------------------------------------------------------------------
(* Specification of the aggregation list: one compile of a stored          *)
(* expression with any reduce list, with and without parameters.           *)

\* the most entries of reduce.expressions
MaxReduce == 3

AggregationChoices ==
    {Reduce(<<"count">>, Property(<<"Value">>, "number"), NoParameters),
     Reduce(<<"count">>, Property(<<"Value">>, "number"), Parameters(<<>>)),
     Reduce(<<"count">>, Property(<<"Value">>, "number"),
            Parameters(<<NumberParameter(<<"1">>)>>)),
     Reduce(<<"none">>, Property(<<"Host">>, "string"), NoParameters),
     Reduce(<<"none">>, Property(<<"Host">>, "string"),
            Parameters(<<NumberParameter(<<"1">>)>>)),
     Reduce(<<"avg">>, Property(<<"Tags", ".", "k">>, "number"), NoParameters),
     Reduce(<<"percentile">>, Property(<<"Value">>, "number"),
            Parameters(<<NumberParameter(<<"95">>),
                         [value |-> Scalar(<<"x">>), fieldType |-> "string"]>>))}

\* a schema with a nested column that reductions refer to
NestedValueSchema ==
    Schema(<<[Name |-> <<"Timestamp">>, CslType |-> "datetime"],
             [Name |-> <<"Tags", ".", "k">>, CslType |-> "long"]>>)

InitReduce ==
    /\ \E r \in 0..MaxReduce : \E reduce \in SeqsOfLen(AggregationChoices, r) :
          expression = QueryExpression(FromTable(<<"T">>), reduce, <<>>, NoExpression, NoExpression)
    /\ heap = EmptyWhere
    /\ templateVars = NoVariables
    /\ Fresh

NextReduce ==
    /\ pc = "idle"
    /\ \E tableSchema \in {NoSchema, NestedValueSchema} : ToQuery(tableSchema)

SpecReduce == InitReduce /\ [][NextReduce]_vars

----------------------------------------------------------------------------
(* Specification of the smoothing weight: one compile of the expression of *)
(* a stored query that carries a weight index, with ewma or median         *)
(* smoothing.                                                              *)

\* KustoQuery.smoothingWeight: absent, or the value of one of the four options
\* of the weight selector
StoredWeights == {Undefined} \cup {Def(<<w>>) : w \in {"0", "1", "2", "3"}}

InitWeightIndex ==
    /\ \E smoothing \in {PropertyExpression(<<"ewma">>), PropertyExpression(<<"median">>)},
          reduce \in {<<Reduce(<<"avg">>, Property(<<"Value">>, "number"), NoParameters)>>,
                      <<Reduce(<<"count">>, Property(<<"Value">>, "number"), NoParameters)>>},
          groupBy \in {<<GroupBy(Property(<<"Timestamp">>, "dateTime"), Def(<<"1m">>))>>,
                       <<GroupBy(Property(<<"Timestamp">>, "dateTime"), Def(<<"1m">>)),
                         GroupBy(Property(<<"Host">>, "string"), Undefined)>>} :
            expression = QueryExpression(FromTable(<<"T">>), reduce, groupBy, NoExpression, smoothing)
    /\ smoothingWeight \in StoredWeights
    /\ heap = EmptyWhere
    /\ heap0 = heap
    /\ templateVars = NoVariables
    /\ call = NoCall
    /\ parts = <<>>
    /\ built = NoStages
    /\ result = ""
    /\ first = NoFirst
    /\ spliced = FALSE
    /\ pc = "idle"

NextWeightIndex ==
    /\ pc = "idle"
    /\ \E tableSchema \in {NoSchema, TimestampSchema, NestedTimeSchema} : ToQuery(tableSchema)

SpecWeightIndex == InitWeightIndex /\ [][NextWeightIndex]_vars

----------------------------------------------------------------------------
(* Specification of autocomplete: one toAutoCompleteQuery call on a stored *)
(* expression that has aggregations, groups, a time shift and smoothing.   *)

\* a search operator on a nested column
SearchNested == OperatorNode(Property(<<"Tags", ".", "k">>, "string"), <<"contains">>, Scalar(<<"v">>))

AutoCompleteReduces ==
    {<<>>, <<Reduce(<<"avg">>, Property(<<"Value">>, "number"), NoParameters)>>}

AutoCompleteGroupBys ==
    {<<>>,
     <<GroupBy(Property(<<"Timestamp">>, "dateTime"), Def(<<"5m">>))>>,
     <<GroupBy(Property(<<"Tags", ".", "ts">>, "dateTime"), Def(<<"5m">>))>>,
     <<GroupBy(Property(<<"Host">>, "string"), Undefined)>>}

InitAutoComplete ==
    /\ \E reduce \in AutoCompleteReduces, groupBy \in AutoCompleteGroupBys,
          smoothing \in {NoExpression, PropertyExpression(<<"ewma">>), PropertyExpression(<<"median">>)},
          timeshift \in {NoExpression, PropertyExpression(<<"1", "h">>)} :
            expression = QueryExpression(FromTable(<<"T">>), reduce, groupBy, timeshift, smoothing)
    /\ heap \in WhereTrees(2, {"A", "B"})
    /\ templateVars = NoVariables
    /\ Fresh

NextAutoComplete ==
    /\ pc = "idle"
    /\ \E tableSchema \in {NoSchema, NestedValueSchema, NestedTimeSchema},
          index \in {<<"0">>, <<"1">>, <<"0", "-", "0">>},
          search \in {Search, SearchNested} :
            ToAutoCompleteQuery(tableSchema, index, search)

SpecAutoComplete == InitAutoComplete /\ [][NextAutoComplete]_vars

----------------------------------------------------------------------------
(* Claims *)

\* C1: after any sequence of toQuery and toAutoCompleteQuery calls on the same
\* stored expression, with any index path, the expression's where tree is
\* unchanged (the same nodes with the same children at every position), and a
\* compile returns what the first compile with the same schema returned.
C1_StoredWhereUnchanged ==
    /\ heap = heap0
    /\ (call.fn = "toQuery" /\ first.def /\ first.schema = call.schema)
          => result = first.result

\* a compile after an autocomplete call that spliced its search operator into
\* a where tree with filters
C1_Witness ==
    /\ spliced
    /\ call.fn = "toQuery"
    /\ first.def /\ first.schema = call.schema
    /\ Len(built.where) > 0

\* an operator expression with both a property name and an operator name
HasNames(node) == Text(node.property.name) # "" /\ Text(node.operator.name) # ""

\* the where stage of each complete operator expression of LeafNode
ExpectedStage(node) ==
    CASE node = LeafNode("A") -> "where a == 'x'"
      [] node = LeafNode("B") -> "where b > 1"
      [] node = LeafNode("unary") -> "where isnotempty(c)"

RootChildren == [k \in 1..Len(heap[RootId].expressions) |-> heap[heap[RootId].expressions[k]]]

AndOfOperators ==
    /\ call.fn = "toQuery"
    /\ isAndExpression(heap[RootId])
    /\ \A k \in 1..Len(RootChildren) : isFieldAndOperator(RootChildren[k])

\* C2: for a where tree whose root is an And node with operator children,
\* compile emits exactly one where stage per child that has both a property
\* name and an operator name, in child order, and nothing for the others.
C2_OneStagePerCompleteChild ==
    AndOfOperators =>
        LET complete == SelectSeq(RootChildren, HasNames)
        IN  built.where = [k \in 1..Len(complete) |-> ExpectedStage(complete[k])]

\* three children, the middle one skipped
C2_Witness ==
    /\ AndOfOperators
    /\ Len(RootChildren) = 3
    /\ HasNames(RootChildren[1]) /\ ~HasNames(RootChildren[2]) /\ HasNames(RootChildren[3])
    /\ RootChildren[1] # RootChildren[3]
    /\ Len(built.where) = 2

\* the lowering as the where-clause rules state it: an And node lowers each
\* child with the prefix, an Or node lowers its children without the prefix
\* and emits one stage, the prefix once and the clauses joined with " or "
RECURSIVE LowerByRule(_, _, _), LowerEachByRule(_, _, _, _)
LowerByRule(h, id, prefix) ==
    IF isAndExpression(h[id]) THEN LowerEachByRule(h, h[id].expressions, 1, prefix)
    ELSE IF isOrExpression(h[id])
    THEN LET clauses == LowerEachByRule(h, h[id].expressions, 1, Undefined)
         IN  IF clauses = <<>> THEN <<>>
             ELSE <<withPrefix(Join(clauses, <<" or ">>), prefix)>>
    ELSE appendOperator(h[id], <<>>, prefix)

LowerEachByRule(h, children, i, prefix) ==
    IF i > Len(children) THEN <<>>
    ELSE LowerByRule(h, children[i], prefix) \o LowerEachByRule(h, children, i + 1, prefix)

\* every Or node's children resolve to non-empty clauses, all of them or none
OrChildrenAlike(h) ==
    \A n \in DOMAIN h : isOrExpression(h[n]) =>
        \/ \A k \in 1..Len(h[n].expressions) : LowerByRule(h, h[n].expressions[k], Undefined) # <<>>
        \/ \A k \in 1..Len(h[n].expressions) : LowerByRule(h, h[n].expressions[k], Undefined) = <<>>

\* C3: every Or node, at any depth, whose children each resolve to non-empty
\* clauses is lowered to exactly one stage, the prefix once at the start and
\* the children's clauses joined with " or "; when every child produces
\* nothing, no stage is emitted.
C3_OrNodeOneStage ==
    (call.fn = "toQuery" /\ OrChildrenAlike(heap)) =>
        LET stages == LowerByRule(heap, RootId, Def(<<"where">>))
        IN  built.where = [k \in 1..Len(stages) |-> Text(stages[k])]

\* the stored expression names no from table
FromMissing ==
    \/ ~expression.def
    \/ ~expression.from.def
    \/ Text(expression.from.property.name) = ""

\* the time column the last call resolved
TimeColumn == defaultTimeColumn(call.schema, expression)

CountScenario ==
    /\ call.fn = "toQuery"
    /\ expression.from.def
    /\ heap[RootId].expressions = <<>>
    /\ ~expression.timeshift.def
    /\ ~expression.smoothing.def
    /\ Len(expression.reduce) = 1
    /\ Text(expression.reduce[1].reduce.name) = "count"
    /\ ~expression.reduce[1].parameters.isArray
    /\ Len(expression.groupBy) = 1
    /\ expression.groupBy[1].property.type = "dateTime"
    /\ expression.groupBy[1].interval.def
    /\ ~Has(expression.groupBy[1].property.name, ".")
    /\ ~Has(expression.groupBy[1].property.name, "todynamic")

\* C4: for an expression with from table T, an empty where, no time shift, no
\* smoothing, reduce = [count] (a count reduction without a parameters list)
\* and groupBy = [one entry on a non-dynamic DateTime column C with interval I],
\* compile returns exactly the four stages T, where $__timeFilter(C),
\* summarize count() by bin(C, I), order by C asc.
C4_CountByTimeBin ==
    CountScenario =>
        LET T == expression.from.property.name
            C == expression.groupBy[1].property.name
            I == expression.groupBy[1].interval.v
        IN  /\ parts = << Text(T),
                          Text(<<"where $__timeFilter(">> \o C \o <<")">>),
                          Text(<<"summarize count() by bin(">> \o C \o <<", ">> \o I \o <<")">>),
                          Text(<<"order by ">> \o C \o <<" asc">>) >>
            /\ result = Text(T \o <<"\n| where $__timeFilter(">> \o C
                             \o <<")\n| summarize count() by bin(">> \o C \o <<", ">> \o I
                             \o <<")\n| order by ">> \o C \o <<" asc">>)

\* the scenario compiled without a schema
C4_Witness ==
    /\ CountScenario
    /\ call.schema = NoSchema
    /\ Len(parts) = 4
    /\ parts[2] = "where $__timeFilter(Timestamp)"

SmoothedNotMedian ==
    /\ call.fn = "toQuery"
    /\ ~FromMissing
    /\ ~Falsy(TimeColumn)
    /\ expression.smoothing.def /\ expression.smoothing.property.def
    /\ Text(expression.smoothing.property.name) \notin {"", "median"}
    /\ expression.reduce # <<>>
    /\ expression.groupBy # <<>>

\* C5: for every smoothing algorithm name other than "median", with reduce and
\* groupBy non-empty, compile emits four consecutive stages: make-series, an
\* extend that defines the smoothed alias b, mv-expand over the time column
\* and b, and a project; mv-expand is always preceded by the extend stage.
C5_FourSmoothingStages ==
    SmoothedNotMedian =>
        /\ Len(built.smoothing) = 4
        /\ built.smoothing[3] = Text(<<"mv-expand ">> \o Interp(TimeColumn)
                                     \o <<" to typeof(datetime), b to typeof(real)">>)
        /\ Text(expression.smoothing.property.name) = "ewma"
              => built.smoothing[2] = "extend b=series_exp_smoothing_udf(a, 0.5)"
        /\ Text(expression.smoothing.property.name) = "auto"
              => built.smoothing[2] = "extend b=series_moving_avg_udf(a, 10, false)"

\* C6: compile returns the empty string whenever the from table is missing
\* (expression absent, from absent, or from with an empty table name), and
\* compileAutocomplete whenever the from table or the searched property is
\* missing; in every other case the output is non-empty and its first stage
\* is the from table name.
C6_EmptyWhenFromMissing ==
    LET missing == \/ FromMissing
                   \/ (call.fn = "toAutoCompleteQuery" /\ ~call.search.property.def)
    IN  call.fn \in {"toQuery", "toAutoCompleteQuery"} =>
            IF missing THEN result = ""
            ELSE /\ result # ""
                 /\ parts # <<>>
                 /\ parts[1] = Text(expression.from.property.name)

\* C7: translating a weight index outside 0..3, for ewma or median, fails with
\* a defined invalid-configuration error and never yields an undefined
\* constant.
C7_WeightOutOfRangeFails ==
    (/\ pc = "returned"
     /\ call.fn = "translateSmoothingWeight"
     /\ Text(call.arg[1]) \in {"ewma", "median"}
     /\ toInteger(call.arg[2]) \notin 0..3)
        => result.kind = "error"

\* the time-shift grammar: an integer magnitude followed by one of d, h, ms, s, m
GrammarTimeSpan(value) ==
    \E n \in 1..Len(value) :
        /\ \A k \in 1..n : value[k] \in Digits
        /\ SubSeq(value, n + 1, Len(value)) \in {<<"d">>, <<"h">>, <<"m", "s">>, <<"s">>, <<"m">>}

\* the three forms of the time filter
ShiftedFilter(tc, shift) ==
    Text(<<"where ">> \o tc \o <<" between (($__timeFrom - ">> \o shift
         \o <<") .. ($__timeTo - ">> \o shift \o <<"))">>)

BetweenFilter(tc) == Text(<<"where ">> \o tc \o <<" between ($__timeFrom .. $__timeTo)">>)

MacroFilter(tc) == Text(<<"where $__timeFilter(">> \o tc \o <<")">>)

UnshiftedFilter(tc) ==
    IF Has(tc, ".") \/ Has(tc, "todynamic") THEN BetweenFilter(tc) ELSE MacroFilter(tc)

CompiledWithTimeColumn ==
    /\ call.fn = "toQuery"
    /\ ~FromMissing
    /\ ~Falsy(TimeColumn)

\* C8: with a resolved time column, a time shift is applied iff the string is
\* an integer magnitude followed by one of d, h, ms, s, m: then the output has
\* the shifted between filter and the extend stage with the same shift; for
\* any other string neither appears and the unshifted filter is emitted.
C8_ShiftIffGrammar ==
    (/\ CompiledWithTimeColumn
     /\ expression.timeshift.def /\ expression.timeshift.property.def)
        => LET shift == expression.timeshift.property.name
               tc    == TimeColumn.v
           IN  IF GrammarTimeSpan(shift)
               THEN /\ built.timeFilter = <<ShiftedFilter(tc, shift)>>
                    /\ built.timeshift = <<Text(<<"extend ">> \o tc \o <<" = ">> \o tc
                                                \o <<" + ">> \o shift)>>
               ELSE /\ built.timeFilter = <<UnshiftedFilter(tc)>>
                    /\ built.timeshift = <<>>

\* the cast of a dotted path: every segment but the last in todynamic(...),
\* the last in to<T>(...)
RECURSIVE DynamicPath(_)
DynamicPath(segments) ==
    IF Len(segments) = 1 THEN <<"todynamic(">> \o segments[1] \o <<")">>
    ELSE <<"todynamic(">> \o DynamicPath(SubSeq(segments, 1, Len(segments) - 1)) \o <<".">>
         \o segments[Len(segments)] \o <<")">>

NestedCast(segments, cslType) ==
    IF Len(segments) = 1 THEN <<"to", cslType, "(">> \o segments[1] \o <<")">>
    ELSE <<"to", cslType, "(">> \o DynamicPath(SubSeq(segments, 1, Len(segments) - 1)) \o <<".">>
         \o segments[Len(segments)] \o <<")">>

\* C9: castIfDynamic returns the column unchanged when it is not dynamic, when
\* there is no schema, or when the schema has no entry of that name; otherwise,
\* for a path of k >= 1 segments of declared type T, the nested cast with
\* every segment but the last in todynamic(...) and the last in to<T>(...).
C9_CastIsNestedCast ==
    (pc = "returned" /\ call.fn = "castIfDynamic") =>
        LET column  == call.arg
            dynamic == Has(column, ".") \/ Has(column, "todynamic")
            entries == SelectSeq(call.schema.cols, LAMBDA c : Text(c.Name) = Text(column))
        IN  result = IF ~dynamic \/ ~call.schema.isArray \/ entries = <<>>
                     THEN Text(column)
                     ELSE Text(NestedCast(Split(column, "."), entries[1].CslType))

\* C10: when a time column is resolved, compile emits exactly one time-filter
\* stage, directly after the from-table stage and before every filter stage;
\* a valid time shift s gives the shifted between form, else a dynamic time
\* column gives the plain between form, else the $__timeFilter macro.
C10_OneTimeFilter ==
    CompiledWithTimeColumn =>
        LET tc == TimeColumn.v
            ts == expression.timeshift
            expected == IF ts.def /\ ts.property.def /\ GrammarTimeSpan(ts.property.name)
                        THEN ShiftedFilter(tc, ts.property.name)
                        ELSE UnshiftedFilter(tc)
        IN  /\ built.timeFilter = <<expected>>
            /\ SubSeq(parts, 1, 2 + Len(built.where))
                 = <<Text(expression.from.property.name), expected>> \o built.where

\* the smallest member of a non-empty set of numbers
Least(S) == CHOOSE m \in S : \A x \in S : m <= x

\* the cast of a column as the claims state it: a dotted path with a schema
\* entry becomes its nested cast, any other column is unchanged
CastByRule(column, tableSchema) ==
    LET entries == SelectSeq(tableSchema.cols, LAMBDA c : Text(c.Name) = Text(column))
    IN  IF Has(column, ".") /\ tableSchema.isArray /\ entries # <<>>
        THEN NestedCast(Split(column, "."), entries[1].CslType)
        ELSE column

\* the time column by the stated order of preference
ExpectedTimeColumn(tableSchema, groupBy) ==
    LET timeBins == {i \in 1..Len(groupBy) :
                        groupBy[i].property.type = "dateTime" /\ groupBy[i].interval.def}
        cols     == tableSchema.cols
        topLevel == {i \in 1..Len(cols) : cols[i].CslType = "datetime" /\ ~Has(cols[i].Name, ".")}
        anyTime  == {i \in 1..Len(cols) : cols[i].CslType = "datetime"}
    IN  IF timeBins # {}
        THEN Def(CastByRule(groupBy[Least(timeBins)].property.name, tableSchema))
        ELSE IF topLevel # {} THEN Def(cols[Least(topLevel)].Name)
        ELSE IF anyTime # {}
        THEN Def(NestedCast(Split(cols[Least(anyTime)].Name, "."), cols[Least(anyTime)].CslType))
        ELSE Undefined

\* C11: the resolved time column is the cast column of the first groupBy entry
\* of type DateTime with an interval; else the name of the first top-level
\* datetime column of the schema; else the first datetime column as its
\* dynamic cast chain; else undefined. An entry with an interval and another
\* property type never determines it. The time filter names that column.
C11_TimeColumnPreference ==
    (call.fn = "toQuery" /\ ~FromMissing /\ ~expression.timeshift.def) =>
        LET expected == ExpectedTimeColumn(call.schema, expression.groupBy)
        IN  /\ TimeColumn.def = expected.def
            /\ expected.def => Text(TimeColumn.v) = Text(expected.v)
            /\ built.timeFilter = IF expected.def THEN <<UnshiftedFilter(expected.v)>> ELSE <<>>

\* a numeric entry with an interval stands before the DateTime entry that
\* determines the time column, against a schema that has other datetime columns
C11_Witness ==
    /\ call.fn = "toQuery"
    /\ call.schema = MixedSchema
    /\ Len(expression.groupBy) = 2
    /\ expression.groupBy[1].property.type = "number" /\ expression.groupBy[1].interval.def
    /\ expression.groupBy[2].property.type = "dateTime" /\ expression.groupBy[2].interval.def
    /\ built.timeFilter = <<"where todatetime(todynamic(Tags).ts) between ($__timeFrom .. $__timeTo)">>

\* C12: whenever no time column is resolved, the output has no time-dependent
\* stage: no time filter, no time-shift extend, no order-by and no smoothing
\* stage (make-series, mv-expand, project or rolling_percentile, which would
\* name the time column, here the text undefined).
C12_NoTimeColumnNoTimeStage ==
    (call.fn = "toQuery" /\ ~FromMissing /\ Falsy(TimeColumn)) =>
        /\ built.timeFilter = <<>>
        /\ built.timeshift = <<>>
        /\ built.orderBy = <<>>
        /\ built.smoothing = <<>>

\* a scalar is the token $<id> of a variable the lookup knows
KnownVariable(s) ==
    /\ templateVars.isArray
    /\ \E i \in 1..Len(templateVars.ids) : Text(s) = Text(<<"$">> \o templateVars.ids[i])

\* a scalar as the formatting rule renders it
FormatByRule(s, type) ==
    IF KnownVariable(s) THEN s
    ELSE IF type \in {"number", "boolean"} THEN s
    ELSE <<"'">> \o s \o <<"'">>

\* C13: format(value, type) renders an array as ( + its elements formatted
\* with the same type and joined by ", " + ); a scalar equal to $<id> of a
\* known template variable verbatim whatever the type; any other scalar raw
\* for Number and Boolean and in single quotes for every other type. When the
\* lookup yields no variable list, nothing is a template variable.
C13_FormatValue ==
    (pc = "returned" /\ call.fn = "formatValue" /\ call.arg.value.kind # "undefined") =>
        LET value == call.arg.value
            type  == call.arg.type
        IN  /\ result.def
            /\ result.text =
                 IF value.kind = "array"
                 THEN Text(<<"(">> \o Join([k \in 1..Len(value.a) |-> FormatByRule(value.a[k], type)],
                                          <<", ">>) \o <<")">>)
                 ELSE Text(FormatByRule(value.s, type))

\* an array with a template variable and a plain element, of a quoted type
C13_Witness ==
    /\ pc = "returned" /\ call.fn = "formatValue"
    /\ call.arg.value = ArrayValue(<< <<"$", "host">>, <<"x">> >>)
    /\ call.arg.type = "string"
    /\ result.text = "($host, 'x')"

\* the aggregation terms, the group terms and the referenced reduce columns
\* the summarize builder collects for the last call
ReduceTerms ==
    summarizeReduceLoop(expression.reduce, 1, call.schema,
                        [countAddedInReduce |-> FALSE, reduceParts |-> <<>>, columns |-> <<>>])

GroupTerms == summarizeGroupByLoop(expression.groupBy, 1, call.schema, <<>>)

\* C14: when smoothing is absent the summarize/project builder emits at most
\* one stage: with an aggregation term, summarize <aggs>, with by <groups>
\* appended iff there are group terms; else with a group term, summarize by
\* <groups>; else with a referenced reduce column, project <columns>; else
\* no stage.
C14_SummarizePolicy ==
    (call.fn = "toQuery" /\ ~FromMissing /\ ~expression.smoothing.def) =>
        LET aggs    == Join(ReduceTerms.reduceParts, <<", ">>)
            groups  == Join(GroupTerms, <<", ">>)
            columns == Join(ReduceTerms.columns, <<", ">>)
        IN  built.summarize =
              IF ReduceTerms.reduceParts # <<>>
              THEN IF GroupTerms # <<>>
                   THEN <<Text(<<"summarize ">> \o aggs \o <<" by ">> \o groups)>>
                   ELSE <<Text(<<"summarize ">> \o aggs)>>
              ELSE IF GroupTerms # <<>> THEN <<Text(<<"summarize by ">> \o groups)>>
              ELSE IF ReduceTerms.columns # <<>> THEN <<Text(<<"project ">> \o columns)>>
              ELSE <<>>

\* only "none" reductions and no grouping: the referenced columns are projected
C14_Witness ==
    /\ call.fn = "toQuery" /\ ~expression.smoothing.def
    /\ Len(expression.reduce) = 2
    /\ \A k \in 1..2 : Text(expression.reduce[k].reduce.name) = "none"
    /\ expression.groupBy = <<>>
    /\ built.summarize = <<"project Host, Host">>

\* the aggregation list as the rules state it, from entry i on: count() once,
\* nothing for "none", func(castColumn, p1, ..., pn) with explicit
\* parameters, func(castColumn) otherwise
RECURSIVE AggregationsByRule(_, _, _, _)
AggregationsByRule(reduce, i, tableSchema, counted) ==
    IF i > Len(reduce) THEN <<>>
    ELSE LET e      == reduce[i]
             func   == e.reduce.name
             column == CastByRule(e.property.name, tableSchema)
             params == [k \in 1..Len(e.parameters.list) |->
                          FormatByRule(e.parameters.list[k].value.s, e.parameters.list[k].fieldType)]
         IN  IF Text(func) = "count"
             THEN (IF counted THEN <<>> ELSE << <<"count()">> >>)
                  \o AggregationsByRule(reduce, i + 1, tableSchema, TRUE)
             ELSE IF Text(func) = "none"
             THEN AggregationsByRule(reduce, i + 1, tableSchema, counted)
             ELSE IF e.parameters.isArray /\ e.parameters.list # <<>>
             THEN << func \o <<"(">> \o column \o <<", ">> \o Join(params, <<", ">>) \o <<")">> >>
                  \o AggregationsByRule(reduce, i + 1, tableSchema, counted)
             ELSE << func \o <<"(">> \o column \o <<")">> >>
                  \o AggregationsByRule(reduce, i + 1, tableSchema, counted)

\* C15: the aggregation list built from reduce, in encounter order, has
\* count() at most once however many count reductions are given, with or
\* without a parameters list; nothing for a reduction named "none", with or
\* without a parameters list; func(castColumn, p1, ..., pn) for a reduction
\* with explicit parameters; func(castColumn) for every other reduction.
C15_AggregationList ==
    (call.fn = "toQuery" /\ ~FromMissing /\ ~expression.smoothing.def
     /\ expression.groupBy = <<>>) =>
        LET aggs    == AggregationsByRule(expression.reduce, 1, call.schema, FALSE)
            columns == [k \in 1..Len(expression.reduce) |->
                          CastByRule(expression.reduce[k].property.name, call.schema)]
        IN  built.summarize =
              IF aggs # <<>> THEN <<Text(<<"summarize ">> \o Join(aggs, <<", ">>))>>
              ELSE IF columns # <<>> THEN <<Text(<<"project ">> \o Join(columns, <<", ">>))>>
              ELSE <<>>

\* the positions of the groupBy entries that carry an interval
IntervalEntries == {i \in 1..Len(expression.groupBy) : expression.groupBy[i].interval.def}

\* the columns of the groupBy entries without an interval, in order
PlainGroups ==
    LET plain == SelectSeq(expression.groupBy, LAMBDA e : ~e.interval.def)
    IN  [k \in 1..Len(plain) |-> CastByRule(plain[k].property.name, call.schema)]

\* C16: when more than one groupBy entry carries an interval, compile uses the
\* first encountered only: the summarize stage has one bin(...) term, of that
\* entry, the make-series step is that entry's interval, and when that entry
\* is of type DateTime the time column is its column.
C16_FirstIntervalOnly ==
    (call.fn = "toQuery" /\ ~FromMissing /\ Cardinality(IntervalEntries) > 1) =>
        LET e        == expression.groupBy[Least(IntervalEntries)]
            column   == CastByRule(e.property.name, call.schema)
            bin      == <<"bin(">> \o column \o <<", ">> \o e.interval.v \o <<")">>
            groups   == Join(<<bin>> \o PlainGroups, <<", ">>)
            aggs     == Join(ReduceTerms.reduceParts, <<", ">>)
            smoothed == /\ expression.smoothing.def
                        /\ Text(expression.smoothing.property.name) \in {"ewma", "auto"}
                        /\ expression.reduce # <<>>
                        /\ ~Falsy(TimeColumn)
            last     == expression.reduce[Len(expression.reduce)]
        IN  /\ ~expression.smoothing.def =>
                  built.summarize =
                     IF ReduceTerms.reduceParts # <<>>
                     THEN <<Text(<<"summarize ">> \o aggs \o <<" by ">> \o groups)>>
                     ELSE <<Text(<<"summarize by ">> \o groups)>>
            /\ smoothed =>
                  built.smoothing[1] =
                     Text(<<"make-series a=">> \o last.reduce.name \o <<"(">>
                          \o CastByRule(last.property.name, call.schema) \o <<") on ">>
                          \o TimeColumn.v \o <<" from $__timeFrom to $__timeTo step ">>
                          \o e.interval.v
                          \o (IF PlainGroups # <<>>
                              THEN <<" by ">> \o Join(PlainGroups, <<", ">>) ELSE <<>>))
            /\ e.property.type = "dateTime" => Text(TimeColumn.v) = Text(column)

\* the last call compiled an expression with the smoothing algorithm "median",
\* a resolved time column, reduce and groupBy non-empty and at most one interval
MedianSmoothed ==
    /\ call.fn = "toQuery"
    /\ ~FromMissing
    /\ ~Falsy(TimeColumn)
    /\ expression.smoothing.def /\ expression.smoothing.property.def
    /\ Text(expression.smoothing.property.name) = "median"
    /\ expression.reduce # <<>>
    /\ expression.groupBy # <<>>
    /\ Cardinality(IntervalEntries) <= 1

\* evaluate rolling_percentile(<func>_<castColumn>, 50, <timeColumn>,
\* <interval>, <weight>[, <groups>]) for a reduction and a weight constant
RollingPercentile(reduction, weight) ==
    LET interval == IF IntervalEntries = {} THEN <<>>
                    ELSE expression.groupBy[Least(IntervalEntries)].interval.v
    IN  Text(<<"evaluate rolling_percentile(">> \o reduction.reduce.name \o <<"_">>
             \o CastByRule(reduction.property.name, call.schema) \o <<", 50, ">>
             \o TimeColumn.v \o <<", ">> \o interval \o <<", ", weight>>
             \o (IF PlainGroups # <<>> THEN <<", ">> \o Join(PlainGroups, <<", ">>) ELSE <<>>)
             \o <<")">>)

\* C17: the summarize/project stage is emitted only when smoothing is absent
\* or the algorithm is "median"; with "median" and reduce and groupBy
\* non-empty the smoothing builder emits exactly one stage, evaluate
\* rolling_percentile(...), directly after the summarize stage, and no
\* make-series, extend or mv-expand stage.
C17_MedianRollingPercentile ==
    /\ (/\ call.fn = "toQuery" /\ ~FromMissing
        /\ expression.smoothing.def /\ expression.smoothing.property.def
        /\ Text(expression.smoothing.property.name) \notin {"", "median"})
          => built.summarize = <<>>
    /\ MedianSmoothed =>
          LET before == Len(built.property) + Len(built.timeFilter) + Len(built.where)
                        + Len(built.timeshift)
          IN  /\ Len(built.summarize) = 1
              /\ Len(built.smoothing) = 1
              /\ \E k \in 1..Len(expression.reduce), w \in 1..Len(medianWeights) :
                     built.smoothing[1] = RollingPercentile(expression.reduce[k], medianWeights[w])
              /\ parts[before + 1] = built.summarize[1]
              /\ parts[before + 2] = built.smoothing[1]

\* median over avg(Value) by a time bin and a plain group column
C17_Witness ==
    /\ MedianSmoothed
    /\ PlainGroups # <<>>
    /\ Cardinality(IntervalEntries) = 1
    /\ built.summarize = <<"summarize avg(Value) by bin(Timestamp, 5m), Host">>
    /\ built.smoothing = <<"evaluate rolling_percentile(avg_Value, 50, Timestamp, 5m, 5, Host)">>

\* the constant tables, by weight index 0..3
EwmaConstant(i) == <<"0.7", "0.5", "0.3", "0.1">>[i + 1]

MedianConstant(i) == <<"3", "5", "7", "9">>[i + 1]

\* C18: the weight constant written into the smoothing stage is the entry of
\* the algorithm's table at the weight index stored on the query: for every
\* index i in 0..3, ewma emits the i-th of 0.7, 0.5, 0.3, 0.1 in
\* series_exp_smoothing_udf(a, <w>) and median the i-th of 3, 5, 7, 9 in
\* rolling_percentile, so queries that differ in the index differ in the
\* constant.
C18_WeightFromQuery ==
    (/\ call.fn = "toQuery" /\ ~FromMissing
     /\ smoothingWeight.def /\ Text(smoothingWeight.v) \in {"0", "1", "2", "3"}
     /\ expression.smoothing.def /\ expression.smoothing.property.def
     /\ expression.reduce # <<>> /\ expression.groupBy # <<>>
     /\ ~Falsy(TimeColumn)) =>
        LET i == toInteger(smoothingWeight.v)
        IN  /\ Text(expression.smoothing.property.name) = "ewma" =>
                  /\ Len(built.smoothing) >= 2
                  /\ built.smoothing[2] = Text(<<"extend b=series_exp_smoothing_udf(a, ",
                                                 EwmaConstant(i), ")">>)
            /\ Text(expression.smoothing.property.name) = "median" =>
                  /\ Len(built.smoothing) = 1
                  /\ built.smoothing[1] = RollingPercentile(expression.reduce[Len(expression.reduce)],
                                                            MedianConstant(i))

\* the order stage of the last call
OrderStage == Text(<<"order by ">> \o Interp(TimeColumn) \o <<" asc">>)

\* no grouping and no aggregation at all, or a groupBy entry with an interval
OrderExpected ==
    \/ expression.reduce = <<>> /\ expression.groupBy = <<>>
    \/ IntervalEntries # {}

\* C19: with a resolved time column, compile appends order by <timeColumn> asc
\* as the last stage if and only if groupBy and reduce are both empty or some
\* groupBy entry carries an interval; in every other case no order-by stage is
\* emitted.
C19_OrderByIff ==
    CompiledWithTimeColumn =>
        IF OrderExpected
        THEN /\ built.orderBy = <<OrderStage>>
             /\ parts # <<>>
             /\ parts[Len(parts)] = OrderStage
        ELSE /\ built.orderBy = <<>>
             /\ \A k \in 1..Len(parts) : parts[k] # OrderStage

\* an aggregation grouped by a plain column only, compiled with a schema that
\* gives the time column: no order stage
C19_Witness ==
    /\ CompiledWithTimeColumn
    /\ ~OrderExpected
    /\ expression.reduce # <<>>
    /\ PlainGroups # <<>>
    /\ Text(Interp(TimeColumn)) = "Timestamp"
    /\ built.summarize # <<>>
    /\ built.orderBy = <<>>

\* the keys of the index path of the last call
PathKeys == Split(call.index, "-")

\* every key of the path is a number
NumericPath == \A k \in 1..Len(PathKeys) : PathKeys[k] # <<>> /\ DigitPrefix(PathKeys[k]) = PathKeys[k]

\* the tree with only the child at the exact path replaced: the walk from
\* position i of the keys descends into the array-expression child at each key
\* but the last and sets the child at the last key; a path that leads through
\* a node that is no array expression addresses no child
RECURSIVE ReplacedAtPath(_, _, _, _, _)
ReplacedAtPath(h, keys, i, current, operator) ==
    IF i = Len(keys)
    THEN [h EXCEPT ![current].expressions = SetAt(@, parseInt(keys[i]), operator)]
    ELSE LET exp == GetAt(h[current].expressions, parseInt(keys[i]))
         IN  IF exp # Hole /\ exp \in DOMAIN h /\ isArrayExpression(h[exp])
             THEN ReplacedAtPath(h, keys, i + 1, exp, operator)
             ELSE h

\* the where stages a tree lowers to
LoweredStages(h) ==
    LET stages == appendWhere(h, RootId, <<>>, Def(<<"where">>))
    IN  [k \in 1..Len(stages) |-> Text(stages[k])]

\* C20: for every dash-separated index path, the where tree that
\* compileAutocomplete lowers is the stored tree with only the child at that
\* exact path replaced by the search operator: the where stages are those of
\* that tree, and no child at another position or depth is overwritten, also
\* when an intermediate index addresses a node that is no array expression.
C20_OnlyAddressedChildReplaced ==
    (call.fn = "toAutoCompleteQuery" /\ NumericPath) =>
        built.where = LoweredStages(ReplacedAtPath(WithSearch(heap, call.search), PathKeys, 1,
                                                   RootId, SearchId))

\* the stages of an output joined by the pipe separator
RECURSIVE JoinedOutput(_)
JoinedOutput(stages) ==
    IF stages = <<>> THEN ""
    ELSE IF Len(stages) = 1 THEN stages[1]
    ELSE stages[1] \o "\n| " \o JoinedOutput(Tail(stages))

\* C21: every non-empty compileAutocomplete output is the from table, then the
\* unshifted time filter when a time column is resolved (whatever the
\* expression's time shift), then the where stages of the spliced tree, then
\* take 50000, distinct <castColumn of the searched property>, take 251, and
\* it has no summarize, project, smoothing, time-shift extend or order-by
\* stage.
C21_AutoCompleteShape ==
    (call.fn = "toAutoCompleteQuery" /\ result # "") =>
        LET final == <<"take 50000",
                       Text(<<"distinct ">> \o CastByRule(call.search.property.name, call.schema)),
                       "take 251">>
            filter == IF Falsy(TimeColumn) THEN <<>> ELSE <<UnshiftedFilter(TimeColumn.v)>>
        IN  /\ parts = <<Text(expression.from.property.name)>> \o filter \o built.where \o final
            /\ built.summarize = <<>>
            /\ built.smoothing = <<>>
            /\ built.timeshift = <<>>
            /\ built.orderBy = <<>>
            /\ result = JoinedOutput(parts)

\* an autocomplete on an aggregated, smoothed and time-shifted expression with
\* a filter, searching a nested column
C21_Witness ==
    /\ call.fn = "toAutoCompleteQuery"
    /\ call.search = SearchNested
    /\ call.schema = NestedValueSchema
    /\ expression.timeshift.def /\ expression.smoothing.def
    /\ expression.reduce # <<>> /\ expression.groupBy # <<>>
    /\ Len(built.where) = 2
    /\ Len(parts) = 7
    /\ parts[2] = "where $__timeFilter(Timestamp)"
    /\ parts[6] = "distinct tolong(todynamic(Tags).k)"

\* the kinds of the complete operator clauses and the truth assignments to them
ClauseKinds == {"A", "B", "unary"}

Assignments == [ClauseKinds -> BOOLEAN]

\* the clause of an operator expression, without a prefix
ClauseOf(kind) == appendOperator(LeafNode(kind), <<>>, Undefined)[1]

\* the truth of the And/Or tree under node id
RECURSIVE TreeHolds(_, _, _)
TreeHolds(h, id, v) ==
    IF isAndExpression(h[id])
    THEN \A k \in 1..Len(h[id].expressions) : TreeHolds(h, h[id].expressions[k], v)
    ELSE IF isOrExpression(h[id])
    THEN \E k \in 1..Len(h[id].expressions) : TreeHolds(h, h[id].expressions[k], v)
    ELSE \E kind \in ClauseKinds : h[id] = LeafNode(kind) /\ v[kind]

\* a row passes a stage `where c1 or c2 ...` when one of its clauses is true
StageHolds(stage, v) ==
    /\ Len(stage) > 2
    /\ SubSeq(stage, 1, 2) = <<"where", " ">>
    /\ LET clauses == Split(SubSeq(stage, 3, Len(stage)), " or ")
       IN  \E k \in 1..Len(clauses) : \E kind \in ClauseKinds :
              clauses[k] = ClauseOf(kind) /\ v[kind]

\* the Or nodes that have an Or node below them
OrBelowOr(h) ==
    {n \in DOMAIN h : isOrExpression(h[n]) /\
        \E m \in Reach(h, n) \ {n} : isOrExpression(h[m])}

\* a stored tree whose meaning is defined: every array node has a child, every
\* operator expression is complete, and no Or node lies below another
MeaningfulTree(h) ==
    /\ \A n \in DOMAIN h :
          IF isArrayExpression(h[n]) THEN h[n].expressions # <<>>
          ELSE \E kind \in ClauseKinds : h[n] = LeafNode(kind)
    /\ OrBelowOr(h) = {}

\* C22: lowering the where tree preserves its boolean meaning: for every
\* assignment of truth values to the operator clauses, a row passes all the
\* emitted where stages exactly when the And/Or tree evaluates to true; the
\* children of an And node under an Or node stay conjoined.
C22_LoweringKeepsMeaning ==
    (call.fn = "toQuery" /\ MeaningfulTree(heap)) =>
        LET stages == appendWhere(heap, RootId, <<>>, Def(<<"where">>))
        IN  /\ built.where = [k \in 1..Len(stages) |-> Text(stages[k])]
            /\ \A v \in Assignments :
                  (\A k \in 1..Len(stages) : StageHolds(stages[k], v)) <=> TreeHolds(heap, RootId, v)

\* reduce holds a reduction whose function is not "none"
AggregationRequested ==
    \E k \in 1..Len(expression.reduce) : Text(expression.reduce[k].reduce.name) # "none"

\* the output has a summarize stage with aggregation terms, or the smoothing
\* stages (make-series or rolling_percentile)
AggregationApplied ==
    \/ /\ ReduceTerms.reduceParts # <<>>
       /\ built.summarize \in
            {<<Text(<<"summarize ">> \o Join(ReduceTerms.reduceParts, <<", ">>))>>,
             <<Text(<<"summarize ">> \o Join(ReduceTerms.reduceParts, <<", ">>)
                    \o <<" by ">> \o Join(GroupTerms, <<", ">>))>>}
    \/ built.smoothing # <<>>

\* C23: a requested aggregation is never silently dropped: whenever reduce has
\* a reduction whose function is not "none", the compile output has a stage
\* that applies an aggregation (summarize, make-series or rolling_percentile),
\* for every smoothing setting, a non-median algorithm with an empty groupBy
\* included.
C23_AggregationNotDropped ==
    (call.fn = "toQuery" /\ ~FromMissing /\ AggregationRequested) => AggregationApplied

====
